---- MODULE Spec2Model ----
(***************************************************************************)
(* Model of the seller-apis synchroniser: seller.py (Ozon driver, feed     *)
(* loader, reconciliation, price normaliser, batch splitter) and market.py *)
(* (Yandex driver and its reconciliation).                                 *)
(*                                                                         *)
(* Python strings are modelled as sequences of one-character strings, so   *)
(* that str(), int(), str.split and re.sub are computed character by       *)
(* character.  A spreadsheet cell is a tagged value: [t |-> "str", v |-> s]*)
(* or [t |-> "int", v |-> n] (pandas keeps the native cell type).          *)
(***************************************************************************)
EXTENDS Integers, Sequences, FiniteSets, TLC

(* ------------------------------------------------------------------ *)
(* Bounds of the model (not program constants).                       *)
(* ------------------------------------------------------------------ *)
\* longest feed (number of spreadsheet rows) explored
MaxFeed == 2
\* longest catalog listing explored
MaxIds == 2
\* longest list handed to divide
MaxLen == 5
\* largest chunk size handed to divide
MaxN == 3
\* longest price string explored
MaxPrice == 4
\* how many times the reconciliation may be re-run on the same collection
MaxRuns == 2
\* readings of the UTC clock (seconds) that a run can observe
MaxClock == 1
\* items a marketplace serves per listing page (the code asks for up to 1000
\* and 200; the server decides)
PageSize == 1
\* batch ceilings of the drivers, scaled to the list lengths explored
\* (seller.py: 100 stocks, 900 prices; market.py: 2000 stocks)
SellerStockCeiling == 1
SellerPriceCeiling == 1
MarketStockCeiling == 1
\* requests a run may have issued when a get_offer_ids loop asks for one more
\* page; beyond it the model stops following the loop
MaxRequests == 12

(* ------------------------------------------------------------------ *)
(* Python values                                                      *)
(* ------------------------------------------------------------------ *)
StrCell(s) == [t |-> "str", v |-> s]
IntCell(n) == [t |-> "int", v |-> n]

Digits == {"0", "1", "2", "3", "4", "5", "6", "7", "8", "9"}

DigitChar(d) ==
    CASE d = 0 -> "0" [] d = 1 -> "1" [] d = 2 -> "2" [] d = 3 -> "3"
      [] d = 4 -> "4" [] d = 5 -> "5" [] d = 6 -> "6" [] d = 7 -> "7"
      [] d = 8 -> "8" [] d = 9 -> "9"

DigitVal(c) == CHOOSE d \in 0..9 : DigitChar(d) = c

RECURSIVE NatToStr(_)
NatToStr(n) == IF n < 10 THEN <<DigitChar(n)>>
               ELSE NatToStr(n \div 10) \o <<DigitChar(n % 10)>>

\* str(x) for a cell value: a string is itself, an integer is written in decimal
PyStr(cell) ==
    IF cell.t = "str" THEN cell.v
    ELSE IF cell.v < 0 THEN <<"-">> \o NatToStr(0 - cell.v)
    ELSE NatToStr(cell.v)

RECURSIVE StripLeft(_)
StripLeft(s) == IF s # <<>> /\ Head(s) = " " THEN StripLeft(Tail(s)) ELSE s

RECURSIVE StripRight(_)
StripRight(s) == IF s # <<>> /\ s[Len(s)] = " "
                 THEN StripRight(SubSeq(s, 1, Len(s) - 1)) ELSE s

RECURSIVE DigitsValue(_, _)
DigitsValue(s, acc) == IF s = <<>> THEN acc
                       ELSE DigitsValue(Tail(s), 10 * acc + DigitVal(Head(s)))

\* int(x): an integer is itself; a string is stripped of blanks, may carry a
\* sign, and must then be a non-empty run of decimal digits, else ValueError
PyInt(cell) ==
    IF cell.t = "int" THEN [ok |-> TRUE, v |-> cell.v]
    ELSE LET s    == StripRight(StripLeft(cell.v))
             neg  == s # <<>> /\ Head(s) = "-"
             body == IF s # <<>> /\ Head(s) \in {"-", "+"} THEN Tail(s) ELSE s
         IN  IF body # <<>> /\ \A i \in 1..Len(body) : body[i] \in Digits
             THEN [ok |-> TRUE,
                   v  |-> IF neg THEN 0 - DigitsValue(body, 0)
                          ELSE DigitsValue(body, 0)]
             ELSE [ok |-> FALSE, v |-> 0]

\* x in lst
InList(x, lst) == \E i \in 1..Len(lst) : lst[i] = x

\* lst.remove(x): drops the first occurrence of x
ListRemove(lst, x) ==
    LET k == CHOOSE i \in 1..Len(lst) :
                 lst[i] = x /\ \A j \in 1..(i - 1) : lst[j] # x
    IN  SubSeq(lst, 1, k - 1) \o SubSeq(lst, k + 1, Len(lst))

(* ------------------------------------------------------------------ *)
(* seller.price_conversion                                            *)
(* ------------------------------------------------------------------ *)
\* price.split(".")[0]: the text before the first "."
RECURSIVE SplitDotHead(_)
SplitDotHead(s) == IF s = <<>> \/ Head(s) = "." THEN <<>>
                   ELSE <<Head(s)>> \o SplitDotHead(Tail(s))

\* re.sub("[^0-9]", "", s)
RECURSIVE SubNonDigits(_)
SubNonDigits(s) == IF s = <<>> THEN <<>>
                   ELSE IF Head(s) \in Digits
                        THEN <<Head(s)>> \o SubNonDigits(Tail(s))
                        ELSE SubNonDigits(Tail(s))

\* price_conversion that keeps the digits of the fraction
price_conversion_whole(price) == SubNonDigits(price)

\* re.sub("[^0-9]", "", price.split(".")[0])
price_conversion(price) == SubNonDigits(SplitDotHead(price))

(* ------------------------------------------------------------------ *)
(* seller.divide                                                      *)
(* ------------------------------------------------------------------ *)
\* range(0, len - 1, n): the start offsets with the last element left out
DivideStarts_short(len, n) == {i \in 0..(len - 2) : i % n = 0}

\* range(0, len, n), 0-based start offsets
DivideStarts(len, n) == {i \in 0..(len - 1) : i % n = 0}

\* lst[i : i + n] (0-based, end clipped to the list)
Slice(l, i, n) == SubSeq(l, i + 1, IF i + n < Len(l) THEN i + n ELSE Len(l))

\* list(divide(lst, n)) for n > 0
divide(l, n) ==
    LET cnt == Cardinality(DivideStarts(Len(l), n))
    IN  [k \in 1..cnt |-> Slice(l, (k - 1) * n, n)]

(* ------------------------------------------------------------------ *)
(* Reconciliation: seller.create_stocks / seller.create_prices        *)
(* A feed record is [code, quantity, price]: the cells of the columns *)
(* "Код", "Количество" and "Цена" of one spreadsheet row.             *)
(* A result is [err, ...]: err = TRUE when the call raised.           *)
(* ------------------------------------------------------------------ *)
\* the if / elif / else of seller.create_stocks
seller_stock_of(watch) ==
    LET count == PyStr(watch.quantity)
    IN  IF count = <<">", "1", "0">> THEN [ok |-> TRUE, v |-> 100]
        ELSE IF count = <<"1">> THEN [ok |-> TRUE, v |-> 0]
        ELSE PyInt(watch.quantity)

\* seller_match_loop with a per-record handler: a row whose quantity does not
\* parse is skipped and the loop goes on
RECURSIVE seller_match_loop_skip(_, _, _, _)
seller_match_loop_skip(feed, i, ids, acc) ==
    IF i > Len(feed) THEN [err |-> FALSE, stocks |-> acc, offer_ids |-> ids]
    ELSE LET watch == feed[i]
             code  == PyStr(watch.code)
         IN  IF InList(code, ids)
             THEN LET q == seller_stock_of(watch)
                  IN  IF ~q.ok
                      THEN seller_match_loop_skip(feed, i + 1, ids, acc)
                      ELSE seller_match_loop_skip(feed, i + 1, ListRemove(ids, code),
                               Append(acc, [offer_id |-> code, stock |-> q.v]))
             ELSE seller_match_loop_skip(feed, i + 1, ids, acc)

\* first loop of seller.create_stocks, from feed row i on
RECURSIVE seller_match_loop(_, _, _, _)
seller_match_loop(feed, i, ids, acc) ==
    IF i > Len(feed) THEN [err |-> FALSE, stocks |-> acc, offer_ids |-> ids]
    ELSE LET watch == feed[i]
             code  == PyStr(watch.code)
         IN  IF InList(code, ids)
             THEN LET q == seller_stock_of(watch)
                  IN  IF ~q.ok
                      THEN [err |-> TRUE, stocks |-> acc, offer_ids |-> ids]
                      ELSE seller_match_loop(feed, i + 1, ListRemove(ids, code),
                               Append(acc, [offer_id |-> code, stock |-> q.v]))
             ELSE seller_match_loop(feed, i + 1, ids, acc)

\* seller_zero_tail with the last remaining id forgotten
seller_zero_tail_short(ids) ==
    [k \in 1..(Len(ids) - 1) |-> [offer_id |-> ids[k], stock |-> 0]]

\* second loop of seller.create_stocks: the ids left over get stock 0
seller_zero_tail(ids) == [k \in 1..Len(ids) |-> [offer_id |-> ids[k], stock |-> 0]]

\* seller.create_stocks(watch_remnants, offer_ids): the returned list and the
\* caller's offer_ids list as the call leaves it (it is mutated in place)
seller_create_stocks(feed, ids) ==
    LET m == seller_match_loop(feed, 1, ids, <<>>)
    IN  IF m.err THEN m
        ELSE [err |-> FALSE,
              stocks |-> m.stocks \o seller_zero_tail(m.offer_ids),
              offer_ids |-> m.offer_ids]

RECURSIVE seller_price_loop(_, _, _, _)
seller_price_loop(feed, i, ids, acc) ==
    IF i > Len(feed) THEN [err |-> FALSE, prices |-> acc]
    ELSE LET watch == feed[i]
             code  == PyStr(watch.code)
         IN  IF InList(code, ids)
             THEN IF watch.price.t # "str"
                  THEN [err |-> TRUE, prices |-> acc]
                  ELSE seller_price_loop(feed, i + 1, ids,
                           Append(acc, [auto_action_enabled |-> "UNKNOWN",
                                        currency_code |-> "RUB",
                                        offer_id |-> code,
                                        old_price |-> "0",
                                        price |-> price_conversion(watch.price.v)]))
             ELSE seller_price_loop(feed, i + 1, ids, acc)

\* seller.create_prices(watch_remnants, offer_ids)
seller_create_prices(feed, ids) == seller_price_loop(feed, 1, ids, <<>>)

(* ------------------------------------------------------------------ *)
(* Reconciliation: market.create_stocks / market.create_prices        *)
(* ------------------------------------------------------------------ *)
\* market_stock_of without the "1" branch
market_stock_of_plain(watch) ==
    LET count == PyStr(watch.quantity)
    IN  IF count = <<">", "1", "0">> THEN [ok |-> TRUE, v |-> 100]
        ELSE PyInt(watch.quantity)

\* the if / elif / else of market.create_stocks
market_stock_of(watch) ==
    LET count == PyStr(watch.quantity)
    IN  IF count = <<">", "1", "0">> THEN [ok |-> TRUE, v |-> 100]
        ELSE IF count = <<"1">> THEN [ok |-> TRUE, v |-> 0]
        ELSE PyInt(watch.quantity)

\* one element of the list market.create_stocks builds
market_sku(sku, warehouse_id, count, date) ==
    [sku |-> sku, warehouseId |-> warehouse_id,
     items |-> <<[count |-> count, type |-> "FIT", updatedAt |-> date]>>]

RECURSIVE market_match_loop(_, _, _, _, _, _)
market_match_loop(feed, i, ids, warehouse_id, date, acc) ==
    IF i > Len(feed) THEN [err |-> FALSE, stocks |-> acc, offer_ids |-> ids]
    ELSE LET watch == feed[i]
             code  == PyStr(watch.code)
         IN  IF InList(code, ids)
             THEN LET q == market_stock_of(watch)
                  IN  IF ~q.ok
                      THEN [err |-> TRUE, stocks |-> acc, offer_ids |-> ids]
                      ELSE market_match_loop(feed, i + 1, ListRemove(ids, code),
                               warehouse_id, date,
                               Append(acc, market_sku(code, warehouse_id, q.v, date)))
             ELSE market_match_loop(feed, i + 1, ids, warehouse_id, date, acc)

market_zero_tail(ids, warehouse_id, date) ==
    [k \in 1..Len(ids) |-> market_sku(ids[k], warehouse_id, 0, date)]

\* market.create_stocks(watch_remnants, offer_ids, warehouse_id), with date the
\* reading of utcnow() the call takes
market_create_stocks(feed, ids, warehouse_id, date) ==
    LET m == market_match_loop(feed, 1, ids, warehouse_id, date, <<>>)
    IN  IF m.err THEN m
        ELSE [err |-> FALSE,
              stocks |-> m.stocks \o market_zero_tail(m.offer_ids, warehouse_id, date),
              offer_ids |-> m.offer_ids]

RECURSIVE market_price_loop(_, _, _, _)
market_price_loop(feed, i, ids, acc) ==
    IF i > Len(feed) THEN [err |-> FALSE, prices |-> acc]
    ELSE LET watch == feed[i]
             code  == PyStr(watch.code)
         IN  IF InList(code, ids)
             THEN LET value == IF watch.price.t # "str" THEN [ok |-> FALSE, v |-> 0]
                               ELSE PyInt(StrCell(price_conversion(watch.price.v)))
                  IN  IF ~value.ok
                      THEN [err |-> TRUE, prices |-> acc]
                      ELSE market_price_loop(feed, i + 1, ids,
                               Append(acc, [id |-> code,
                                            price |-> [value |-> value.v,
                                                       currencyId |-> "RUR"]]))
             ELSE market_price_loop(feed, i + 1, ids, acc)

\* market.create_prices(watch_remnants, offer_ids)
market_create_prices(feed, ids) == market_price_loop(feed, 1, ids, <<>>)

(* ------------------------------------------------------------------ *)
(* Inputs explored                                                    *)
(* ------------------------------------------------------------------ *)
RECURSIVE SeqsUpTo(_, _)
SeqsUpTo(S, k) ==
    IF k = 0 THEN {<<>>}
    ELSE LET shorter == SeqsUpTo(S, k - 1)
         IN  shorter \cup {Append(q, x) : q \in shorter, x \in S}

Distinct(q) == \A i, j \in 1..Len(q) : i # j => q[i] # q[j]

\* offer ids a marketplace may list ("7" is the str() of the numeric code 7)
OfferIdStrings == {<<"A">>, <<"7">>, <<"C">>}

\* listings of distinct offer ids
Listings == {q \in SeqsUpTo(OfferIdStrings, MaxIds) : Distinct(q)}

\* rows of the feed: a text code "A" and a numeric code 7, with the quantity
\* cells the supplier writes (">10", "1", plain numbers as text or as a native
\* number) and a row whose quantity and price cells are missing
\* (keep_default_na=False reads a missing cell as "")
Row(c, q, p) == [code |-> c, quantity |-> q, price |-> p]

FeedRecords ==
    { Row(StrCell(<<"A">>), StrCell(<<">", "1", "0">>),
          StrCell(<<"5", "'", "9", "9", "0", ".", "0", "0", " ", "r", ".">>)),
      Row(StrCell(<<"A">>), StrCell(<<"1">>), StrCell(<<"5", "0", ".", "0", "0">>)),
      Row(StrCell(<<"A">>), StrCell(<<"1", "0">>), StrCell(<<"1", "2", "3">>)),
      Row(StrCell(<<"A">>), StrCell(<<>>), StrCell(<<>>)),
      Row(IntCell(7), StrCell(<<"2">>), StrCell(<<"1", ".", "9", "9">>)),
      Row(IntCell(7), IntCell(1), StrCell(<<"7", " ", "r">>)),
      Row(IntCell(7), StrCell(<<"0">>), StrCell(<<"0", ".", "5", "0">>)),
      Row(IntCell(7), StrCell(<<">", "1", "0">>), StrCell(<<"9", "9">>)) }

Feeds == SeqsUpTo(FeedRecords, MaxFeed)

Warehouse == "W"

(* ------------------------------------------------------------------ *)
(* State                                                              *)
(* ------------------------------------------------------------------ *)
VARIABLES
    driver,          \* "seller" (Ozon, seller.py) or "market" (Yandex, market.py)
    catalog,         \* the offer ids the marketplace lists, in listing order
    watch_remnants,  \* the feed records
    offer_ids,       \* the caller's list of known offer ids (mutated in place)
    now,             \* last reading of the UTC clock, in seconds
    stock_runs,      \* results of the create_stocks calls made so far
    price_runs,      \* results of the create_prices calls made so far
    lst, n, chunks,  \* divide: its arguments; <<list(divide(lst, n))>> once called
    price, converted,\* price_conversion: its argument; <<its result>> once called
    pc,              \* the driver's position in main()
    campaign,        \* the campaign being processed: "OZON", or "FBS" then "DBS"
    product_list,    \* get_offer_ids: the items collected so far
    page,            \* get_offer_ids: last_id / page token of the next request
    stocks, prices,  \* main's lists of stock and price updates
    todo,            \* the batches the current push loop has still to send
    log,             \* the HTTP requests issued so far, with their outcome
    printed,         \* what the except clauses of main printed
    file,            \* whether ./ostatki.xls exists
    download,        \* how download_stock ended, "none" before it ran
    coroutines,      \* coroutine objects created and never awaited
    failed           \* <<>>, or the exception raised inside main

recVars    == <<driver, catalog, watch_remnants, offer_ids, now, stock_runs, price_runs>>
divideVars == <<lst, n, chunks>>
priceVars  == <<price, converted>>
runVars    == <<pc, campaign, product_list, page, stocks, prices, todo, log,
               printed, file, download, coroutines, failed>>
vars == <<recVars, divideVars, priceVars, runVars>>


IdleRec == /\ driver = "seller" /\ catalog = <<>> /\ watch_remnants = <<>>
           /\ offer_ids = <<>> /\ now = 0 /\ stock_runs = <<>> /\ price_runs = <<>>
IdleDivide == lst = <<>> /\ n = 1 /\ chunks = <<>>
IdlePrice  == price = <<>> /\ converted = <<>>
IdleRun    == /\ pc = "idle" /\ campaign = "OZON" /\ product_list = <<>> /\ page = ""
              /\ stocks = <<>> /\ prices = <<>> /\ todo = <<>> /\ log = <<>>
              /\ printed = <<>> /\ file = FALSE /\ download = "none"
              /\ coroutines = <<>> /\ failed = <<>>

(* ------------------------------------------------------------------ *)
(* Reconciliation calls on one feed and one offer-id list             *)
(* ------------------------------------------------------------------ *)
RecInit ==
    /\ driver \in {"seller", "market"}
    /\ catalog \in Listings
    /\ watch_remnants \in Feeds
    /\ offer_ids = catalog
    /\ now = 0
    /\ stock_runs = <<>>
    /\ price_runs = <<>>
    /\ IdleDivide
    /\ IdlePrice
    /\ IdleRun

\* a call create_stocks(watch_remnants, offer_ids) on the list object offer_ids
\* (the calls alternate: create_prices on the list as listed, then
\* create_stocks, then create_prices on the list as create_stocks left it, ...)
CallCreateStocks ==
    /\ Len(stock_runs) < MaxRuns
    /\ Len(stock_runs) < Len(price_runs)
    /\ \E date \in (IF driver = "seller" THEN {now} ELSE now..MaxClock) :
          LET r == IF driver = "seller"
                   THEN seller_create_stocks(watch_remnants, offer_ids)
                   ELSE market_create_stocks(watch_remnants, offer_ids, Warehouse, date)
          IN  /\ now' = date
              /\ stock_runs' = Append(stock_runs,
                                  [err |-> r.err, ids |-> offer_ids,
                                   stocks |-> IF r.err THEN <<>> ELSE r.stocks])
              /\ offer_ids' = r.offer_ids
    /\ UNCHANGED <<driver, catalog, watch_remnants, price_runs, divideVars, priceVars,
                   runVars>>

\* a call create_prices(watch_remnants, offer_ids) on the same list object
CallCreatePrices ==
    /\ Len(price_runs) < MaxRuns
    /\ Len(price_runs) = Len(stock_runs)
    /\ LET r == IF driver = "seller"
                THEN seller_create_prices(watch_remnants, offer_ids)
                ELSE market_create_prices(watch_remnants, offer_ids)
       IN  price_runs' = Append(price_runs,
                            [err |-> r.err, ids |-> offer_ids,
                             after |-> Len(stock_runs),
                             prices |-> IF r.err THEN <<>> ELSE r.prices])
    /\ UNCHANGED <<driver, catalog, watch_remnants, offer_ids, now, stock_runs,
                   divideVars, priceVars, runVars>>

RecNext == CallCreateStocks \/ CallCreatePrices

SpecRec == RecInit /\ [][RecNext]_vars

(* ------------------------------------------------------------------ *)
(* Properties of the reconciliation (SpecRec)                         *)
(* ------------------------------------------------------------------ *)
\* offer id and quantity of a stock update, in the payload shape of the driver
StockId(e)  == IF driver = "seller" THEN e.offer_id ELSE e.sku
StockQty(e) == IF driver = "seller" THEN e.stock ELSE e.items[1].count
PriceId(e)  == IF driver = "seller" THEN e.offer_id ELSE e.id

Range(q) == {q[i] : i \in 1..Len(q)}

\* the feed rows whose code, as text, is id
RowsOf(feed, id) == {i \in 1..Len(feed) : PyStr(feed[i].code) = id}

FirstRowOf(feed, id) ==
    feed[CHOOSE i \in RowsOf(feed, id) : \A j \in RowsOf(feed, id) : i <= j]

\* the stock-quantization rule on the text of a quantity cell
Quantized(text) ==
    IF text = <<">", "1", "0">> THEN 100
    ELSE IF text = <<"1">> THEN 0
    ELSE PyInt(StrCell(text)).v

\* C1: a create_stocks call that returns gives exactly one stock update to
\* each offer id of the list it was handed, none to any other id, and
\* quantity 0 to every listed id that no feed row carries.
C1_OneStockPerListedId ==
    \A k \in 1..Len(stock_runs) :
        LET r == stock_runs[k]
        IN  ~r.err =>
              /\ \A i \in 1..Len(r.ids) :
                    Cardinality({j \in 1..Len(r.stocks) :
                                    StockId(r.stocks[j]) = r.ids[i]}) = 1
              /\ \A j \in 1..Len(r.stocks) :
                    /\ InList(StockId(r.stocks[j]), r.ids)
                    /\ RowsOf(watch_remnants, StockId(r.stocks[j])) = {}
                          => StockQty(r.stocks[j]) = 0

\* a returned call on a listing with a matched id and an id the feed lacks,
\* and with a feed row whose code is not listed
C1_Witness ==
    /\ Len(stock_runs) >= 1
    /\ ~stock_runs[1].err
    /\ Len(stock_runs[1].ids) = 2
    /\ \E id \in Range(stock_runs[1].ids) : RowsOf(watch_remnants, id) = {}
    /\ \E id \in Range(stock_runs[1].ids) : RowsOf(watch_remnants, id) # {}
    /\ \E i \in 1..Len(watch_remnants) :
          ~InList(PyStr(watch_remnants[i].code), stock_runs[1].ids)

\* C4: the stock update of a listed id that the feed carries holds the
\* quantized value of the matching row's quantity (100 for ">10", 0 for "1",
\* else its integer value), and seller.py and market.py quantize every row
\* of the feed alike.
C4_StockQuantization ==
    /\ \A k \in 1..Len(stock_runs) :
          LET r == stock_runs[k]
          IN  ~r.err =>
                \A j \in 1..Len(r.stocks) :
                    LET id == StockId(r.stocks[j])
                    IN  RowsOf(watch_remnants, id) # {} =>
                          StockQty(r.stocks[j]) =
                              Quantized(PyStr(FirstRowOf(watch_remnants, id).quantity))
    /\ \A i \in 1..Len(watch_remnants) :
          seller_stock_of(watch_remnants[i]) = market_stock_of(watch_remnants[i])

\* a returned market call that wrote 10 for a row "10" and 0 for a row 1
C4_Witness ==
    /\ driver = "market"
    /\ Len(stock_runs) >= 1
    /\ ~stock_runs[1].err
    /\ \E j \in 1..Len(stock_runs[1].stocks) :
          LET id == StockId(stock_runs[1].stocks[j])
          IN  /\ RowsOf(watch_remnants, id) # {}
              /\ PyStr(FirstRowOf(watch_remnants, id).quantity) = <<"1", "0">>
              /\ StockQty(stock_runs[1].stocks[j]) = 10
    /\ \E j \in 1..Len(stock_runs[1].stocks) :
          LET id == StockId(stock_runs[1].stocks[j])
          IN  /\ RowsOf(watch_remnants, id) # {}
              /\ FirstRowOf(watch_remnants, id).quantity = IntCell(1)
              /\ StockQty(stock_runs[1].stocks[j]) = 0

\* C7: a second create_stocks / create_prices call on the same feed and the
\* same offer-id collection returns the same set of stock updates and the
\* same set of price updates as the first.
C7_Idempotent ==
    /\ (Len(stock_runs) >= 2 /\ ~stock_runs[1].err /\ ~stock_runs[2].err)
          => Range(stock_runs[2].stocks) = Range(stock_runs[1].stocks)
    /\ (Len(price_runs) >= 2 /\ ~price_runs[1].err /\ ~price_runs[2].err)
          => Range(price_runs[2].prices) = Range(price_runs[1].prices)

\* the price a price update carries, and the price create_prices computes
\* from a feed row
PriceOf(e) == IF driver = "seller" THEN e.price ELSE e.price.value

PriceFrom(watch) ==
    IF driver = "seller" THEN price_conversion(watch.price.v)
    ELSE PyInt(StrCell(price_conversion(watch.price.v))).v

\* C11: when several feed rows carry the code of a listed offer id, a
\* returned create_stocks call holds exactly one stock update for that id and
\* a returned create_prices call holds at most one price update for it, both
\* computed from the first of those rows in feed order.
C11_FirstRecordWins ==
    \A id \in OfferIdStrings :
        Cardinality(RowsOf(watch_remnants, id)) >= 2 =>
          /\ \A k \in 1..Len(stock_runs) :
                LET r == stock_runs[k]
                    hits == {j \in 1..Len(r.stocks) : StockId(r.stocks[j]) = id}
                IN  (~r.err /\ InList(id, r.ids)) =>
                      /\ Cardinality(hits) = 1
                      /\ \A j \in hits :
                            StockQty(r.stocks[j]) =
                              Quantized(PyStr(FirstRowOf(watch_remnants, id).quantity))
          /\ \A k \in 1..Len(price_runs) :
                LET r == price_runs[k]
                    hits == {j \in 1..Len(r.prices) : PriceId(r.prices[j]) = id}
                IN  (~r.err /\ InList(id, r.ids)) =>
                      /\ Cardinality(hits) <= 1
                      /\ \A j \in hits :
                            PriceOf(r.prices[j]) =
                              PriceFrom(FirstRowOf(watch_remnants, id))

(* ------------------------------------------------------------------ *)
(* seller.divide applied to a list and a chunk size (SpecDivide)      *)
(* ------------------------------------------------------------------ *)
Elements == {"x", "y"}

DivideInit ==
    /\ lst \in SeqsUpTo(Elements, MaxLen)
    /\ n \in 1..MaxN
    /\ chunks = <<>>
    /\ IdleRec
    /\ IdlePrice
    /\ IdleRun

\* chunks = list(divide(lst, n))
CallDivide ==
    /\ chunks = <<>>
    /\ chunks' = <<divide(lst, n)>>
    /\ UNCHANGED <<lst, n, recVars, priceVars, runVars>>

DivideNext == CallDivide

SpecDivide == DivideInit /\ [][DivideNext]_vars

RECURSIVE Concat(_)
Concat(qs) == IF qs = <<>> THEN <<>> ELSE Head(qs) \o Concat(Tail(qs))

\* C5: the chunks of divide(lst, n), n > 0, concatenate to lst; each but the
\* last has n elements, the last has len(lst) % n elements (n when that is
\* 0), none is empty, and the empty list has no chunk.
C5_DivideChunks ==
    chunks # <<>> =>
        LET out == chunks[1]
        IN  /\ Concat(out) = lst
            /\ \A k \in 1..Len(out) :
                  /\ Len(out[k]) > 0
                  /\ k < Len(out) => Len(out[k]) = n
                  /\ k = Len(out) =>
                        Len(out[k]) = (IF Len(lst) % n = 0 THEN n ELSE Len(lst) % n)
            /\ lst = <<>> => out = <<>>

\* a split into two full chunks and a shorter last one
C5_Witness ==
    /\ chunks # <<>>
    /\ Len(chunks[1]) = 3
    /\ Len(chunks[1][1]) = 2 /\ Len(chunks[1][2]) = 2 /\ Len(chunks[1][3]) = 1

(* ------------------------------------------------------------------ *)
(* seller.price_conversion applied to a price string (SpecPrice)      *)
(* ------------------------------------------------------------------ *)
PriceChars == {"1", "9", ".", "'", "r"}

PriceInit ==
    /\ price \in SeqsUpTo(PriceChars, MaxPrice)
    /\ converted = <<>>
    /\ IdleRec
    /\ IdleDivide
    /\ IdleRun

\* converted = price_conversion(price)
CallPriceConversion ==
    /\ converted = <<>>
    /\ converted' = <<price_conversion(price)>>
    /\ UNCHANGED <<price, recVars, divideVars, runVars>>

PriceNext == CallPriceConversion

SpecPrice == PriceInit /\ [][PriceNext]_vars

IsDigit(c) == c \in Digits

\* C6: price_conversion returns the decimal digits, in order, of the text
\* before the first "." (of the whole text when it has none): the fraction is
\* cut, not rounded, and nothing but digits is returned.
C6_PriceConversion ==
    converted # <<>> =>
        LET dots   == {i \in 1..Len(price) : price[i] = "."}
            cut    == IF dots = {} THEN Len(price)
                      ELSE (CHOOSE i \in dots : \A j \in dots : i <= j) - 1
        IN  /\ converted[1] = SelectSeq(SubSeq(price, 1, cut), IsDigit)
            /\ \A i \in 1..Len(converted[1]) : converted[1][i] \in Digits

\* a price with a separator before the "." and a fraction that would round up
C6_Witness ==
    /\ price = <<"1", "'", ".", "9">>
    /\ converted = <<(<<"1">>)>>

(* ------------------------------------------------------------------ *)
(* The marketplaces and the feed site, as the drivers see them        *)
(* ------------------------------------------------------------------ *)
Min(a, b) == IF a < b THEN a ELSE b

\* a continuation token names the offset it continues from; "" and any
\* token the server did not issue start from the first item
TokenOffset(cat, token) ==
    IF \E k \in 0..Len(cat) : ToString(k) = token
    THEN CHOOSE k \in 0..Len(cat) : ToString(k) = token
    ELSE 0

\* the "result" object Ozon's /v2/product/list answers for last_id
OzonServe(cat, last_id) ==
    LET off == TokenOffset(cat, last_id)
        hi  == Min(off + PageSize, Len(cat))
    IN  [items   |-> [k \in 1..(hi - off) |-> [offer_id |-> cat[off + k]]],
         total   |-> Len(cat),
         last_id |-> ToString(hi)]

\* the "result" object Yandex's offer-mapping-entries answers for page_token;
\* on the last page nextPageToken is `last`: "" or absent (None)
MarketServe(cat, page_token, last) ==
    LET off == TokenOffset(cat, page_token)
        hi  == Min(off + PageSize, Len(cat))
    IN  [offerMappingEntries |->
             [k \in 1..(hi - off) |-> [offer |-> [shopSku |-> cat[off + k]]]],
         paging |-> [nextPageToken |-> IF hi < Len(cat) THEN ToString(hi) ELSE last]]

\* outcomes of one HTTP request: answered, or the exception requests raises
Outcomes  == {"ok", "ReadTimeout", "ConnectionError", "HTTPError"}
Transport == {"ReadTimeout", "ConnectionError"}

\* feeds the site may serve to a driver run
DriverRecords ==
    { Row(StrCell(<<"A">>), StrCell(<<">", "1", "0">>),
          StrCell(<<"5", "'", "9", "9", "0", ".", "0", "0", " ", "r", ".">>)),
      Row(IntCell(7), StrCell(<<"2">>), StrCell(<<"1", ".", "9", "9">>)),
      Row(StrCell(<<"A">>), StrCell(<<>>), StrCell(<<>>)) }

DriverFeeds == SeqsUpTo(DriverRecords, MaxFeed)

\* catalogs a marketplace may serve to a driver run; an offer id may be
\* listed twice (the listing is not a set)
DriverListings == SeqsUpTo(OfferIdStrings, MaxIds)

(* ------------------------------------------------------------------ *)
(* get_offer_ids                                                      *)
(* ------------------------------------------------------------------ *)
\* seller.get_offer_ids: `if total == len(product_list): break`
seller_listing_done(total, collected) == total = Len(collected)

\* seller.get_offer_ids: the offer_id of every collected product
seller_offer_ids(collected) == [k \in 1..Len(collected) |-> collected[k].offer_id]

\* market.get_offer_ids with `if page is None: break`
market_listing_done_none(token) == token = "None"

\* market.get_offer_ids: `if not page: break`
market_listing_done(token) == token \in {"", "None"}

\* market.get_offer_ids: the shopSku of every collected entry
market_offer_ids(collected) ==
    [k \in 1..Len(collected) |-> collected[k].offer.shopSku]

(* ------------------------------------------------------------------ *)
(* The except clauses of main                                         *)
(* ------------------------------------------------------------------ *)
\* what the matching except clause prints (the texts are Russian in the code)
MessageOf(kind) ==
    CASE kind = "ReadTimeout"     -> "timeout"
      [] kind = "ConnectionError" -> "connection error"
      [] OTHER                    -> "ERROR_2"

\* a driver whose FBS part has a try block of its own
after_except_per_campaign(camp) ==
    IF camp = "FBS" THEN [pc |-> "list", campaign |-> "DBS"]
    ELSE [pc |-> "done", campaign |-> camp]

\* where main goes on after an except clause: the one try block spans the
\* whole run, so main returns
after_except(camp) == [pc |-> "done", campaign |-> camp]

\* a push call whose raise_for_status never raises: every response that
\* arrives is returned as the acknowledgement
raise_for_status_silent(outcome) == FALSE

\* response.raise_for_status() in update_stocks / update_price: HTTPError on a
\* non-success status
raise_for_status(outcome) == outcome = "HTTPError"

Request(op, arg, ok) ==
    log' = Append(log, [op |-> op, camp |-> campaign, arg |-> arg, ok |-> ok])

\* an exception of the given kind reaches the try block of main
Except(kind, step, at) ==
    LET after == after_except(campaign)
    IN  /\ printed' = Append(printed, MessageOf(kind))
        /\ failed' = <<[kind |-> kind, step |-> step, camp |-> campaign, at |-> at]>>
        /\ pc' = after.pc
        /\ campaign' = after.campaign
        /\ page' = ""
        /\ product_list' = <<>>

WarehouseOf(camp) == IF camp = "FBS" THEN "WAREHOUSE_FBS_ID" ELSE "WAREHOUSE_DBS_ID"

Init ==
    /\ driver \in {"seller", "market"}
    /\ catalog \in DriverListings
    /\ watch_remnants = <<>>
    /\ offer_ids = <<>>
    /\ now = 0
    /\ stock_runs = <<>>
    /\ price_runs = <<>>
    /\ IdleDivide
    /\ IdlePrice
    /\ pc = (IF driver = "seller" THEN "list" ELSE "download")
    /\ campaign = (IF driver = "seller" THEN "OZON" ELSE "FBS")
    /\ product_list = <<>>
    /\ page = ""
    /\ stocks = <<>>
    /\ prices = <<>>
    /\ todo = <<>>
    /\ log = <<>>
    /\ printed = <<>>
    /\ file = FALSE
    /\ download = "none"
    /\ coroutines = <<>>
    /\ failed = <<>>

idleVars == <<driver, catalog, stock_runs, price_runs, divideVars, priceVars>>

(* ------------------------------------------------------------------ *)
(* seller.download_stock                                              *)
(* ------------------------------------------------------------------ *)
DownloadOutcomes == Outcomes \cup {"BadZipFile", "ParseError"}

\* one call of download_stock: what it does to the feed, the scratch file and
\* the request log; the caller decides where an exception goes
DownloadStock(outcome) ==
    /\ Request("download", "ostatki.zip", outcome \notin {"ReadTimeout", "ConnectionError", "HTTPError"})
    /\ CASE outcome = "ok" ->
              \* extracted, parsed, removed
              /\ watch_remnants' \in DriverFeeds
              /\ file' = FALSE
              /\ download' = "returned"
         [] outcome = "ParseError" ->
              \* extracted; read_excel raises before os.remove is reached
              /\ file' = TRUE
              /\ download' = "parse_failed"
              /\ UNCHANGED watch_remnants
         [] OTHER ->
              \* the GET or the archive failed: nothing was extracted
              /\ download' = "fetch_failed"
              /\ UNCHANGED <<watch_remnants, file>>

(* ------------------------------------------------------------------ *)
(* seller.main                                                        *)
(* ------------------------------------------------------------------ *)
\* one pass of the while loop of seller.get_offer_ids, called by main
SellerListPage ==
    /\ driver = "seller" /\ pc = "list"
    /\ Len(log) < MaxRequests
    /\ \E outcome \in Outcomes :
          /\ Request("get_product_list", page, outcome = "ok")
          /\ IF outcome = "ok"
             THEN LET some_prod == OzonServe(catalog, page)
                      collected == product_list \o some_prod.items
                  IN  /\ IF seller_listing_done(some_prod.total, collected)
                         THEN /\ offer_ids' = seller_offer_ids(collected)
                              /\ pc' = "download"
                              /\ product_list' = <<>>
                              /\ page' = ""
                         ELSE /\ product_list' = collected
                              /\ page' = some_prod.last_id
                              /\ UNCHANGED <<offer_ids, pc>>
                      /\ UNCHANGED <<campaign, printed, failed>>
             ELSE /\ Except(outcome, "list", Len(log) + 1)
                  /\ UNCHANGED offer_ids
    /\ UNCHANGED <<idleVars, watch_remnants, now, stocks, prices, todo, file,
                   download, coroutines>>

\* watch_remnants = download_stock(), inside the try block
SellerDownload ==
    /\ driver = "seller" /\ pc = "download"
    /\ \E outcome \in DownloadOutcomes :
          /\ DownloadStock(outcome)
          /\ IF outcome = "ok"
             THEN /\ pc' = "create_stocks"
                  /\ UNCHANGED <<campaign, printed, failed, page, product_list>>
             ELSE Except(outcome, "download", Len(log) + 1)
    /\ UNCHANGED <<idleVars, offer_ids, now, stocks, prices, todo, coroutines>>

\* stocks = create_stocks(watch_remnants, offer_ids); list(divide(stocks, 100))
SellerCreateStocks ==
    /\ driver = "seller" /\ pc = "create_stocks"
    /\ LET r == seller_create_stocks(watch_remnants, offer_ids)
       IN  /\ offer_ids' = r.offer_ids
           /\ IF r.err
              THEN /\ Except("ValueError", "create_stocks", Len(log))
                   /\ UNCHANGED <<stocks, todo>>
              ELSE /\ stocks' = r.stocks
                   /\ todo' = divide(r.stocks, SellerStockCeiling)
                   /\ pc' = (IF r.stocks = <<>> THEN "create_prices" ELSE "push_stocks")
                   /\ UNCHANGED <<campaign, printed, failed, page, product_list>>
    /\ UNCHANGED <<idleVars, watch_remnants, now, prices, log, file, download,
                   coroutines>>

\* one pass of `for some_stock in ...: update_stocks(some_stock, ...)`
SellerPushStocks ==
    /\ driver = "seller" /\ pc = "push_stocks"
    /\ \E outcome \in Outcomes :
          /\ Request("update_stocks", Head(todo), outcome = "ok")
          /\ IF outcome \notin Transport /\ ~raise_for_status(outcome)
             THEN /\ todo' = Tail(todo)
                  /\ pc' = (IF Tail(todo) = <<>> THEN "create_prices" ELSE "push_stocks")
                  /\ UNCHANGED <<campaign, printed, failed, page, product_list>>
             ELSE /\ Except(outcome, "update_stocks", Len(log) + 1)
                  /\ UNCHANGED todo
    /\ UNCHANGED <<idleVars, watch_remnants, offer_ids, now, stocks, prices, file,
                   download, coroutines>>

\* prices = create_prices(watch_remnants, offer_ids); list(divide(prices, 900))
SellerCreatePrices ==
    /\ driver = "seller" /\ pc = "create_prices"
    /\ LET r == seller_create_prices(watch_remnants, offer_ids)
       IN  IF r.err
           THEN /\ Except("AttributeError", "create_prices", Len(log))
                /\ UNCHANGED <<prices, todo>>
           ELSE /\ prices' = r.prices
                /\ todo' = divide(r.prices, SellerPriceCeiling)
                /\ pc' = (IF r.prices = <<>> THEN "done" ELSE "push_prices")
                /\ UNCHANGED <<campaign, printed, failed, page, product_list>>
    /\ UNCHANGED <<idleVars, watch_remnants, offer_ids, now, stocks, log, file,
                   download, coroutines>>

\* one pass of `for some_price in ...: update_price(some_price, ...)`
SellerPushPrices ==
    /\ driver = "seller" /\ pc = "push_prices"
    /\ \E outcome \in Outcomes :
          /\ Request("update_price", Head(todo), outcome = "ok")
          /\ IF outcome \notin Transport /\ ~raise_for_status(outcome)
             THEN /\ todo' = Tail(todo)
                  /\ pc' = (IF Tail(todo) = <<>> THEN "done" ELSE "push_prices")
                  /\ UNCHANGED <<campaign, printed, failed, page, product_list>>
             ELSE /\ Except(outcome, "update_price", Len(log) + 1)
                  /\ UNCHANGED todo
    /\ UNCHANGED <<idleVars, watch_remnants, offer_ids, now, stocks, prices, file,
                   download, coroutines>>

(* ------------------------------------------------------------------ *)
(* market.main                                                        *)
(* ------------------------------------------------------------------ *)
\* watch_remnants = download_stock(), before the try block: an exception
\* leaves main uncaught
MarketDownload ==
    /\ driver = "market" /\ pc = "download"
    /\ \E outcome \in DownloadOutcomes :
          /\ DownloadStock(outcome)
          /\ IF outcome = "ok"
             THEN /\ pc' = "list"
                  /\ UNCHANGED failed
             ELSE /\ pc' = "crashed"
                  /\ failed' = <<[kind |-> outcome, step |-> "download",
                                  camp |-> campaign, at |-> Len(log) + 1]>>
    /\ UNCHANGED <<idleVars, offer_ids, now, stocks, prices, todo, coroutines,
                   campaign, printed, page, product_list>>

\* one pass of the while loop of market.get_offer_ids, called by main
MarketListPage ==
    /\ driver = "market" /\ pc = "list"
    /\ Len(log) < MaxRequests
    /\ \E outcome \in Outcomes, last \in {"", "None"} :
          /\ Request("get_product_list", page, outcome = "ok")
          /\ IF outcome = "ok"
             THEN LET some_prod == MarketServe(catalog, page, last)
                      collected == product_list \o some_prod.offerMappingEntries
                      token     == some_prod.paging.nextPageToken
                  IN  /\ IF market_listing_done(token)
                         THEN /\ offer_ids' = market_offer_ids(collected)
                              /\ pc' = "create_stocks"
                              /\ product_list' = <<>>
                              /\ page' = ""
                         ELSE /\ product_list' = collected
                              /\ page' = token
                              /\ UNCHANGED <<offer_ids, pc>>
                      /\ UNCHANGED <<campaign, printed, failed>>
             ELSE /\ Except(outcome, "list", Len(log) + 1)
                  /\ UNCHANGED offer_ids
    /\ UNCHANGED <<idleVars, watch_remnants, now, stocks, prices, todo, file,
                   download, coroutines>>

\* stocks = create_stocks(watch_remnants, offer_ids, warehouse_id);
\* list(divide(stocks, 2000)); the call reads the clock once
MarketCreateStocks ==
    /\ driver = "market" /\ pc = "create_stocks"
    /\ \E date \in now..MaxClock :
          LET r == market_create_stocks(watch_remnants, offer_ids,
                                        WarehouseOf(campaign), date)
          IN  /\ now' = date
              /\ offer_ids' = r.offer_ids
              /\ IF r.err
                 THEN /\ Except("ValueError", "create_stocks", Len(log))
                      /\ UNCHANGED <<stocks, todo>>
                 ELSE /\ stocks' = r.stocks
                      /\ todo' = divide(r.stocks, MarketStockCeiling)
                      /\ pc' = (IF r.stocks = <<>> THEN "upload_prices" ELSE "push_stocks")
                      /\ UNCHANGED <<campaign, printed, failed, page, product_list>>
    /\ UNCHANGED <<idleVars, watch_remnants, prices, log, file, download, coroutines>>

\* one pass of `for some_stock in ...: update_stocks(some_stock, ...)`
MarketPushStocks ==
    /\ driver = "market" /\ pc = "push_stocks"
    /\ \E outcome \in Outcomes :
          /\ Request("update_stocks", Head(todo), outcome = "ok")
          /\ IF outcome \notin Transport /\ ~raise_for_status(outcome)
             THEN /\ todo' = Tail(todo)
                  /\ pc' = (IF Tail(todo) = <<>> THEN "upload_prices" ELSE "push_stocks")
                  /\ UNCHANGED <<campaign, printed, failed, page, product_list>>
             ELSE /\ Except(outcome, "update_stocks", Len(log) + 1)
                  /\ UNCHANGED todo
    /\ UNCHANGED <<idleVars, watch_remnants, offer_ids, now, stocks, prices, file,
                   download, coroutines>>

\* the statement `upload_prices(watch_remnants, campaign_id, market_token)`:
\* upload_prices is an `async def`, so the call only builds a coroutine object;
\* main never awaits it and its body (get_offer_ids, create_prices,
\* update_price) does not run.  Then main goes on: DBS after FBS, else the end.
MarketUploadPrices ==
    /\ driver = "market" /\ pc = "upload_prices"
    /\ coroutines' = Append(coroutines, campaign)
    /\ IF campaign = "FBS"
       THEN campaign' = "DBS" /\ pc' = "list"
       ELSE campaign' = campaign /\ pc' = "done"
    /\ UNCHANGED <<idleVars, watch_remnants, offer_ids, now, stocks, prices, todo,
                   log, printed, file, download, failed, page, product_list>>

Next ==
    \/ SellerListPage
    \/ SellerDownload
    \/ SellerCreateStocks
    \/ SellerPushStocks
    \/ SellerCreatePrices
    \/ SellerPushPrices
    \/ MarketDownload
    \/ MarketListPage
    \/ MarketCreateStocks
    \/ MarketPushStocks
    \/ MarketUploadPrices

Spec == Init /\ [][Next]_vars

(* ------------------------------------------------------------------ *)
(* Properties of the driver runs (Spec)                               *)
(* ------------------------------------------------------------------ *)
\* positions in the log of the requests `op` of campaign `camp`
Requests(op, camp) ==
    {i \in 1..Len(log) : log[i].op = op /\ log[i].camp = camp}

\* the offer ids of the price updates the Ozon price endpoint acknowledged
PushedPriceIds ==
    UNION {{log[i].arg[j].offer_id : j \in 1..Len(log[i].arg)} :
              i \in {k \in Requests("update_price", "OZON") : log[k].ok}}

Completed == pc = "done" /\ failed = <<>>

\* C2: when seller.main completes without an error on a listing of distinct
\* ids, the price batches it pushed hold a price update for exactly the listed
\* ids that the feed carries.
C2_PricesCoverMatched ==
    (driver = "seller" /\ Completed /\ Distinct(catalog)) =>
        \A k \in 1..Len(catalog) :
            (catalog[k] \in PushedPriceIds) <=> (RowsOf(watch_remnants, catalog[k]) # {})

\* C3: when market.main completes without an error, each campaign's requests
\* come in the order listing, stock batches, price batches; a campaign with a
\* matched id has its price batches sent, and FBS's are sent before any
\* request of DBS.
C3_MarketOrder ==
    (driver = "market" /\ Completed) =>
        \A c \in {"FBS", "DBS"} :
            LET L == Requests("get_product_list", c)
                S == Requests("update_stocks", c)
                P == Requests("update_price", c)
            IN  /\ L # {}
                /\ \A j \in S : \E i \in L : i < j
                /\ \A j \in S, k \in P : j < k
                /\ \A k \in P : \E i \in L : i < k
                /\ (\E i \in 1..Len(catalog) : RowsOf(watch_remnants, catalog[i]) # {})
                      => P # {}
                /\ c = "FBS" =>
                      \A k \in P, i \in 1..Len(log) : log[i].camp = "DBS" => k < i

TransportFailure ==
    /\ failed # <<>>
    /\ failed[1].kind \in Transport
    /\ failed[1].step \in {"list", "update_stocks", "update_price"}

\* C8 as stated: after a timeout or connection error in a listing or push
\* step the driver has printed the message, has not sent the failed request
\* again, and has gone on with the run: a failure in FBS is followed by the
\* requests of DBS, a failed Ozon listing by the feed download.
C8_ContinuesAfterTransportError ==
    (TransportFailure /\ pc = "done") =>
        LET f == failed[1]
        IN  /\ printed = <<MessageOf(f.kind)>>
            /\ \A i \in 1..Len(log) : i > f.at => log[i] # log[f.at]
            /\ f.camp = "FBS" => \E i \in 1..Len(log) : log[i].camp = "DBS"
            /\ (driver = "seller" /\ f.step = "list")
                  => Requests("download", "OZON") # {}

\* C8 amended: after a timeout or connection error in a listing or push step
\* the driver has printed the one message of the matching except clause and
\* main has returned: the failed request is the last one of the run, nothing
\* is re-raised, and no later step runs (no DBS request after a failure in
\* FBS, no download after a failed Ozon listing, no price push after a failed
\* stock push).
C8_StopsAfterTransportError ==
    TransportFailure =>
        LET f == failed[1]
        IN  /\ pc = "done"
            /\ printed = <<MessageOf(f.kind)>>
            /\ Len(log) = f.at
            /\ ~log[f.at].ok
            /\ f.camp = "FBS" => \A i \in 1..Len(log) : log[i].camp # "DBS"
            /\ (driver = "seller" /\ f.step = "list")
                  => Requests("download", "OZON") = {}
            /\ f.step = "update_stocks" => Requests("update_price", f.camp) = {}

\* a connection error on a stock batch of FBS after an earlier batch went through
C8_Witness ==
    /\ driver = "market"
    /\ TransportFailure
    /\ failed[1].kind = "ConnectionError"
    /\ failed[1].step = "update_stocks"
    /\ failed[1].camp = "FBS"
    /\ \E i \in Requests("update_stocks", "FBS") : log[i].ok

\* pages a server with this catalog serves
NumPages(cat) ==
    IF Len(cat) = 0 THEN 1 ELSE (Len(cat) + PageSize - 1) \div PageSize

\* C9: a get_offer_ids call never asks for more pages than the catalog has
\* (no request after the terminating page), asks for each page with the token
\* the previous page returned, can always take its next step while it is
\* listing, and returns the ids of the pages in page order.
C9_ListingTerminates ==
    /\ \A c \in {"OZON", "FBS", "DBS"} :
          LET R == Requests("get_product_list", c)
          IN  /\ Cardinality(R) <= NumPages(catalog)
              /\ \A i \in R :
                    LET before == Cardinality({j \in R : j < i})
                    IN  /\ log[i].arg = (IF before = 0 THEN ""
                                         ELSE ToString(before * PageSize))
                        /\ (\E j \in R : j > i) => log[i].ok
    /\ pc = "list" => ENABLED (SellerListPage \/ MarketListPage)
    /\ (driver = "seller" /\ pc = "download") => offer_ids = catalog
    /\ (driver = "market" /\ pc = "create_stocks") => offer_ids = catalog

\* the DBS listing of a catalog of several pages has returned
C9_Witness ==
    /\ driver = "market" /\ pc = "create_stocks" /\ campaign = "DBS"
    /\ NumPages(catalog) >= 2
    /\ Cardinality(Requests("get_product_list", "DBS")) = NumPages(catalog)
    /\ offer_ids = catalog

\* C10: once download_stock has returned, or has failed on parsing the
\* extracted spreadsheet, ./ostatki.xls does not exist.
C10_ScratchFileRemoved ==
    download \in {"returned", "parse_failed"} => ~file


\* feed row i is reached by the stock loop while its code is still in the
\* list the loop removes matched ids from: fewer earlier rows carry the code
\* than the listing holds copies of it
StillListed(feed, i, ids) ==
    Cardinality({j \in 1..(i - 1) : PyStr(feed[j].code) = PyStr(feed[i].code)})
        < Cardinality({k \in 1..Len(ids) : ids[k] = PyStr(feed[i].code)})

\* the feed rows that are matched to a listed id and whose quantity is
\* neither ">10" nor "1" nor an integer literal
FatalRows ==
    {i \in 1..Len(watch_remnants) :
        /\ StillListed(watch_remnants, i, catalog)
        /\ ~seller_stock_of(watch_remnants[i]).ok}

StockFailure == failed # <<>> /\ failed[1].step = "create_stocks"

\* C12 as stated: when create_stocks fails on the quantity of a matched feed
\* row, no stock batch of that reconciliation is pushed and the failure
\* leaves main unhandled: the run crashes and no except clause prints.
C12_CrashesUnhandled ==
    StockFailure =>
        /\ Requests("update_stocks", failed[1].camp) = {}
        /\ pc = "crashed"
        /\ printed = <<>>

\* C12 amended: a feed row that the stock loop matches to a listed id and
\* whose quantity does not parse ends the run: create_stocks raises
\* ValueError and hands back no stock list, no stock batch is ever pushed, and
\* the `except Exception` clause of main prints the error with "ERROR_2" and
\* main returns; a row that does not parse but is not matched (its code is
\* not listed, or earlier rows used the id up) raises nothing.
C12_BadQuantityEndsRun ==
    /\ StockFailure =>
          /\ failed[1].kind = "ValueError"
          /\ FatalRows # {}
          /\ pc = "done"
          /\ printed = <<"ERROR_2">>
          /\ stocks = <<>> /\ todo = <<>>
          /\ Len(log) = failed[1].at
    /\ FatalRows # {} =>
          /\ stocks = <<>>
          /\ \A i \in 1..Len(log) : log[i].op # "update_stocks"
    /\ (FatalRows = {} /\ pc \in {"push_stocks", "create_prices", "upload_prices"})
          => /\ failed = <<>>
             /\ Len(stocks) = Len(catalog)

\* create_stocks failed on a listed row with an empty quantity cell, after the
\* listing and the download went through
C12_Witness ==
    /\ StockFailure
    /\ pc = "done"
    /\ \E i \in FatalRows : PyStr(watch_remnants[i].quantity) = <<>>
    /\ Requests("get_product_list", failed[1].camp) # {}


PushOps == {"update_stocks", "update_price"}

\* the batches a push loop iterates over: divide(stocks, ...) or
\* divide(prices, ...) with the ceiling of the driver
BatchesOf(op) ==
    IF op = "update_stocks"
    THEN divide(stocks, IF driver = "seller" THEN SellerStockCeiling
                        ELSE MarketStockCeiling)
    ELSE divide(prices, SellerPriceCeiling)

\* C13: a push request for which the HTTP layer reported a failure (a
\* non-success status, or a transport error) raised: it is the last request
\* of the run, so the failed batch is not sent again and no later batch of
\* the loop is sent; it and the batches after it are still unsent in the
\* loop, and the requests of the loop before it are the earlier batches, in
\* order, each acknowledged and still on record.
C13_PushFailsFast ==
    \A i \in 1..Len(log) :
        (log[i].op \in PushOps /\ ~log[i].ok) =>
            LET sent    == Requests(log[i].op, log[i].camp)
                batches == BatchesOf(log[i].op)
                k       == Cardinality(sent)
            IN  /\ failed # <<>>
                /\ failed[1].at = i
                /\ failed[1].step = log[i].op
                /\ failed[1].kind \in Outcomes \ {"ok"}
                /\ i = Len(log)
                /\ pc = "done"
                /\ k <= Len(batches)
                /\ todo = SubSeq(batches, k, Len(batches))
                /\ log[i].arg = batches[k]
                /\ \A j \in sent :
                      /\ log[j].arg = batches[Cardinality({m \in sent : m <= j})]
                      /\ j < i => log[j].ok

\* the Ozon stock endpoint answered the second stock batch with a non-success
\* status after it had acknowledged the first
C13_Witness ==
    /\ driver = "seller"
    /\ failed # <<>>
    /\ failed[1].kind = "HTTPError"
    /\ failed[1].step = "update_stocks"
    /\ Len(todo) >= 1
    /\ \E i \in Requests("update_stocks", "OZON") : log[i].ok /\ i < failed[1].at

====
